---- MODULE Spec2Model ----
(***************************************************************************)
(* Model of miio/airpurifier_miot.py: the MIoT air purifier client.        *)
(*   - AirPurifierMiot: the device facade (address table, status(), the    *)
(*     setters with their argument validation);                            *)
(*   - AirPurifierMiotStatus: the status container with its lazily         *)
(*     decoded properties and the class-level filter type cache;           *)
(*   - FILTER_TYPE_RE / _get_filter_type: the filter type classifier.      *)
(* Strings that the code inspects (RFID tag, RFID product id) are          *)
(* sequences of one-character strings; Python values are tagged records.   *)
(***************************************************************************)
EXTENDS Integers, Sequences, FiniteSets, TLC

VARIABLES device, snapshot, cache, evalCount, lastOp, thr

vars == <<device, snapshot, cache, evalCount, lastOp, thr>>

-----------------------------------------------------------------------------
(* Bounds of the model *)

\* raw mode values reported by the device range over -1..MaxRawMode and None
MaxRawMode == 4

\* raw led_brightness values reported range over -1..MaxRawLed and None
MaxRawLed == 3

\* the setters are called with every level in -LevelBound..LevelBound
LevelBound == 25

\* number of threads calling the classifier concurrently
NThreads == 2

\* the transport may answer in any of 2 * NRotations orders
NRotations == 4

-----------------------------------------------------------------------------
(* Python values *)

None == [t |-> "none", v |-> 0]

PyInt(n) == [t |-> "int", v |-> n]

PyBool(b) == [t |-> "bool", v |-> b]

PyStr(s) == [t |-> "str", v |-> s]

\* members of the three enums; NoneType stands for Python's None where an
\* enum member is expected
NoneType == "None"

OperationMode == <<"Auto", "Silent", "Favorite", "Fan">>

LedBrightness == <<"Bright", "Dim", "Off">>

FilterType == {"Regular", "AntiBacterial", "AntiFormaldehyde", "Unknown"}

-----------------------------------------------------------------------------
(* Regular expressions, matched the way re.match matches them *)

Digits == {"0", "1", "2", "3", "4", "5", "6", "7", "8", "9"}

Bol == [k |-> "bol"]

Eol == [k |-> "eol"]

DigitsPlus == [k |-> "digits"]

DotStar == [k |-> "dotstar"]

Lit(s) == [k |-> "lit", s |-> s]

Alt(ss) == [k |-> "alt", ss |-> ss]

\* s has the literal l at position p
HasAt(s, p, l) ==
    /\ p + Len(l) - 1 <= Len(s)
    /\ \A i \in 1..Len(l) : s[p + i - 1] = l[i]

\* the positions at which a match of node n that starts at position p of s
\* can end (one past the last character matched)
NodeEnds(n, s, p) ==
    CASE n.k = "bol" -> IF p = 1 THEN {p} ELSE {}
      [] n.k = "eol" ->
            IF p = Len(s) + 1 \/ (p = Len(s) /\ s[p] = "\n") THEN {p} ELSE {}
      [] n.k = "digits" ->
            {q \in (p + 1)..(Len(s) + 1) : \A i \in p..(q - 1) : s[i] \in Digits}
      [] n.k = "dotstar" ->
            {q \in p..(Len(s) + 1) : \A i \in p..(q - 1) : s[i] # "\n"}
      [] n.k = "lit" -> IF HasAt(s, p, n.s) THEN {p + Len(n.s)} ELSE {}
      [] n.k = "alt" -> {p + Len(l) : l \in {a \in n.ss : HasAt(s, p, a)}}

RECURSIVE EndsAfter(_, _, _)
\* the positions reached after matching the first i nodes of re from position 1
EndsAfter(re, s, i) ==
    IF i = 0 THEN {1}
    ELSE UNION {NodeEnds(re[i], s, p) : p \in EndsAfter(re, s, i - 1)}

\* re.match(s) is not None
ReMatch(re, s) == EndsAfter(re, s, Len(re)) # {}

Colon == <<":">>

FILTER_TYPE_RE ==
    << [re |-> <<Bol, DigitsPlus, Lit(Colon), DigitsPlus,
                 Lit(<<":", "4", "1", ":", "3", "0">>), Eol>>,
        ft |-> "AntiBacterial"],
       [re |-> <<Bol, DigitsPlus, Lit(Colon), DigitsPlus, Lit(Colon),
                 Alt({<<"3", "0">>, <<"0">>, <<"0", "0">>}),
                 Lit(<<":", "3", "1">>), Eol>>,
        ft |-> "AntiFormaldehyde"],
       [re |-> <<DotStar>>, ft |-> "Regular"] >>

-----------------------------------------------------------------------------
(* The filter type classifier and its cache *)

\* a lookup whose default is a filter type: get(product_id, FilterType.Regular)
CacheGetDefaultRegular(c, pid) == IF pid \in DOMAIN c THEN c[pid] ELSE "Regular"

\* cls._filter_type_cache.get(product_id, None)
CacheGet(c, pid) == IF pid \in DOMAIN c THEN c[pid] ELSE NoneType

\* an assignment that forgets the cache: ft = filter_type
CacheStoreDropped(c, pid, ft) == c

\* cls._filter_type_cache[product_id] = filter_type
CacheStore(c, pid, ft) ==
    [k \in DOMAIN c \cup {pid} |-> IF k = pid THEN ft ELSE c[k]]

\* the for loop over FILTER_TYPE_RE: the type of the first rule that matches,
\* None when no rule matches
RuleEval(pid) ==
    LET hits == {i \in DOMAIN FILTER_TYPE_RE : ReMatch(FILTER_TYPE_RE[i].re, pid)}
    IN  IF hits = {} THEN NoneType
        ELSE FILTER_TYPE_RE[CHOOSE i \in hits : \A j \in hits : i <= j].ft

\* _get_filter_type(product_id) run against cache c: the value returned, the
\* cache it leaves and whether the rules were evaluated
GetFilterType(c, pid) ==
    LET hit == CacheGet(c, pid)
        ft == RuleEval(pid)
    IN  IF hit # NoneType
        THEN [ft |-> hit, cache |-> c, evaluated |-> FALSE]
        ELSE [ft |-> ft,
              cache |-> IF ft # NoneType THEN CacheStore(c, pid, ft) ELSE c,
              evaluated |-> TRUE]

-----------------------------------------------------------------------------
(* The address table passed to MiotDevice.__init__ *)

Mapping ==
    << [did |-> "power", siid |-> 2, piid |-> 2],
       [did |-> "fan_level", siid |-> 2, piid |-> 4],
       [did |-> "mode", siid |-> 2, piid |-> 5],
       [did |-> "humidity", siid |-> 3, piid |-> 7],
       [did |-> "temperature", siid |-> 3, piid |-> 8],
       [did |-> "aqi", siid |-> 3, piid |-> 6],
       [did |-> "filter_life_remaining", siid |-> 4, piid |-> 3],
       [did |-> "filter_hours_used", siid |-> 4, piid |-> 5],
       [did |-> "buzzer", siid |-> 5, piid |-> 1],
       [did |-> "led_brightness", siid |-> 6, piid |-> 1],
       [did |-> "led", siid |-> 6, piid |-> 6],
       [did |-> "child_lock", siid |-> 7, piid |-> 1],
       [did |-> "favorite_level", siid |-> 10, piid |-> 10],
       [did |-> "motor_speed", siid |-> 10, piid |-> 8],
       [did |-> "use_time", siid |-> 12, piid |-> 1],
       [did |-> "purify_volume", siid |-> 13, piid |-> 1],
       [did |-> "average_aqi", siid |-> 13, piid |-> 2],
       [did |-> "filter_rfid_tag", siid |-> 14, piid |-> 1],
       [did |-> "filter_rfid_product_id", siid |-> 14, piid |-> 3],
       [did |-> "app_extra", siid |-> 15, piid |-> 1] >>

Names == {Mapping[i].did : i \in DOMAIN Mapping}

\* the table entry of a registered name
Resolve(name) == Mapping[CHOOSE i \in DOMAIN Mapping : Mapping[i].did = name]

-----------------------------------------------------------------------------
(* The device behind the transport *)

ZeroTag == <<"0", ":", "0", ":", "0", ":", "0", ":", "0", ":", "0", ":", "0">>

SomeTag == <<"8", "0", ":", "6", "4", ":", "7", "1", ":", "1", "a">>

IdAntiBacterial == <<"1", ":", "2", ":", "4", "1", ":", "3", "0">>

IdAntiFormaldehyde == <<"0", ":", "1", "2", ":", "0", ":", "3", "1">>

IdRegular == <<"1", ":", "2", ":", "3", "1", ":", "3", "0">>

\* the product ids the stateful specifications classify
ProductIds == {IdAntiBacterial, IdAntiFormaldehyde, IdRegular}

RawModes == {None} \cup {PyInt(n) : n \in -1..MaxRawMode}

RawLeds == {None} \cup {PyInt(n) : n \in -1..MaxRawLed}

RawTags == {None, PyStr(ZeroTag), PyStr(SomeTag)}

RawProductIds == {None} \cup {PyStr(p) : p \in ProductIds}

\* the values the device reports for the properties no decoder inspects
FixedValue(name) ==
    CASE name = "power" -> PyBool(TRUE)
      [] name = "fan_level" -> PyInt(2)
      [] name = "humidity" -> PyInt(40)
      [] name = "temperature" -> PyInt(21)
      [] name = "aqi" -> PyInt(12)
      [] name = "filter_life_remaining" -> PyInt(80)
      [] name = "filter_hours_used" -> PyInt(682)
      [] name = "buzzer" -> PyBool(FALSE)
      [] name = "led" -> PyBool(TRUE)
      [] name = "child_lock" -> PyBool(FALSE)
      [] name = "favorite_level" -> PyInt(10)
      [] name = "motor_speed" -> PyInt(354)
      [] name = "use_time" -> PyInt(2457000)
      [] name = "purify_volume" -> PyInt(25262)
      [] name = "average_aqi" -> PyInt(8)
      [] name = "app_extra" -> PyInt(1)

\* a device that reports the given mode, led brightness, tag and product id
DeviceWith(m, l, tag, pid) ==
    [n \in Names |->
        CASE n = "mode" -> m
          [] n = "led_brightness" -> l
          [] n = "filter_rfid_tag" -> tag
          [] n = "filter_rfid_product_id" -> pid
          [] OTHER -> FixedValue(n)]

Devices(pids) ==
    {DeviceWith(m, l, tag, pid) :
        m \in RawModes, l \in RawLeds, tag \in RawTags, pid \in pids}

NMap == Len(Mapping)

\* the k-th order in which the transport may answer a request for NMap
\* properties: a rotation, read backwards for the upper half of the orders
Order(k) ==
    [i \in 1..NMap |->
        IF k < NRotations
        THEN ((i - 1 + k) % NMap) + 1
        ELSE ((NMap - i + k) % NMap) + 1]

Orders == 0..(2 * NRotations - 1)

\* MiotDevice.get_properties(): one batched read of every registered
\* property, answered by the transport in the given order
GetProperties(dev, k) ==
    LET o == Order(k)
    IN  [i \in 1..NMap |->
            LET m == Mapping[o[i]]
            IN  [did |-> m.did, siid |-> m.siid, piid |-> m.piid,
                 value |-> dev[m.did]]]

\* MiotDevice.set_property(name, value): the one transport call it issues
SetPropertyCall(name, value) ==
    [method |-> "set_property", did |-> name, siid |-> Resolve(name).siid,
     piid |-> Resolve(name).piid, value |-> value]

\* the transport call behind MiotDevice.get_properties()
GetPropertiesCall == [method |-> "get_properties", dids |-> Names]

-----------------------------------------------------------------------------
(* AirPurifierMiotStatus *)

NoSnapshot == [has |-> FALSE, data |-> [n \in {} |-> None]]

\* a dict built by zipping the table's names with the results in the order
\* they arrived
BuildRawByPosition(results) ==
    [n \in Names |->
        results[CHOOSE i \in DOMAIN Mapping : Mapping[i].did = n].value]

\* {prop["did"]: prop["value"] for prop in results}; a later result for the
\* same did replaces an earlier one
BuildRaw(results) ==
    [n \in {results[i].did : i \in DOMAIN results} |->
        LET at == {i \in DOMAIN results : results[i].did = n}
            last == CHOOSE i \in at : \A j \in at : j <= i
        IN  results[last].value]

Ok(v) == [outcome |-> "ok", value |-> v]

Raise(e) == [outcome |-> e, value |-> None]

\* self.data[name]
Item(data, name) ==
    IF name \in DOMAIN data THEN Ok(data[name]) ELSE Raise("KeyError")

\* a decode that shields the caller from unknown modes like the one of
\* led_brightness does
DecodeModeLenient(raw) ==
    IF raw.t = "int" /\ raw.v \in 0..3
    THEN Ok(OperationMode[raw.v + 1])
    ELSE Ok(NoneType)

\* OperationMode(raw)
DecodeMode(raw) ==
    IF raw.t = "int" /\ raw.v \in 0..3
    THEN Ok(OperationMode[raw.v + 1])
    ELSE Raise("ValueError")

\* the mode property
Mode(data) ==
    LET raw == Item(data, "mode")
    IN  IF raw.outcome # "ok" THEN raw ELSE DecodeMode(raw.value)

\* a constructor that decodes the mode and builds no snapshot when that fails
StatusInitEager(data) ==
    IF Mode(data).outcome = "ok" THEN [has |-> TRUE, data |-> data] ELSE NoSnapshot

\* AirPurifierMiotStatus.__init__(data)
StatusInit(data) == [has |-> TRUE, data |-> data]

\* LedBrightness(raw)
LedBrightnessOf(raw) ==
    IF raw.t = "int" /\ raw.v \in 0..2
    THEN Ok(LedBrightness[raw.v + 1])
    ELSE Raise("ValueError")

\* a led_brightness property without the try/except around the decode
DecodeLedStrict(data) ==
    LET raw == Item(data, "led_brightness")
    IN  IF raw.outcome # "ok" THEN raw
        ELSE IF raw.value # None THEN LedBrightnessOf(raw.value)
             ELSE Ok(NoneType)

\* the led_brightness property
DecodeLed(data) ==
    LET raw == Item(data, "led_brightness")
    IN  IF raw.outcome # "ok" THEN raw
        ELSE IF raw.value # None
             THEN IF LedBrightnessOf(raw.value).outcome = "ValueError"
                  THEN Ok(NoneType)
                  ELSE LedBrightnessOf(raw.value)
             ELSE Ok(NoneType)

\* a filter_type property that tests the product id before the all-zero tag
FilterTypeOfReordered(data, c) ==
    LET tag == Item(data, "filter_rfid_tag")
        pid == Item(data, "filter_rfid_product_id")
        keep(r) == [outcome |-> r.outcome, value |-> r.value,
                    cache |-> c, evaluated |-> {}]
    IN  IF tag.outcome # "ok" THEN keep(tag)
        ELSE IF tag.value = None THEN keep(Ok(NoneType))
        ELSE IF pid.outcome # "ok" THEN keep(pid)
        ELSE IF pid.value = None THEN keep(Ok("Regular"))
        ELSE IF tag.value = PyStr(ZeroTag) THEN keep(Ok("Unknown"))
        ELSE LET g == GetFilterType(c, pid.value.v)
             IN  [outcome |-> "ok", value |-> g.ft, cache |-> g.cache,
                  evaluated |-> IF g.evaluated THEN {pid.value.v} ELSE {}]

\* the filter_type property read against cache c: its outcome and value, the
\* cache it leaves and the product id whose rules it evaluated, if any
FilterTypeOf(data, c) ==
    LET tag == Item(data, "filter_rfid_tag")
        pid == Item(data, "filter_rfid_product_id")
        keep(r) == [outcome |-> r.outcome, value |-> r.value,
                    cache |-> c, evaluated |-> {}]
    IN  IF tag.outcome # "ok" THEN keep(tag)
        ELSE IF tag.value = None THEN keep(Ok(NoneType))
        ELSE IF tag.value = PyStr(ZeroTag) THEN keep(Ok("Unknown"))
        ELSE IF pid.outcome # "ok" THEN keep(pid)
        ELSE IF pid.value = None THEN keep(Ok("Regular"))
        ELSE LET g == GetFilterType(c, pid.value.v)
             IN  [outcome |-> "ok", value |-> g.ft, cache |-> g.cache,
                  evaluated |-> IF g.evaluated THEN {pid.value.v} ELSE {}]

\* the power property: "on" if is_on else "off"
Power(data) ==
    LET raw == Item(data, "power")
    IN  IF raw.outcome # "ok" THEN raw
        ELSE Ok(IF raw.value.v = TRUE THEN "on" ELSE "off")

\* __repr__ against cache c: the properties are read in the order of the
\* format arguments and the first one that raises ends the call
Repr(data, c) ==
    LET ft == FilterTypeOf(data, c)
        fields == << Power(data), Item(data, "aqi"), Item(data, "average_aqi"),
                     Item(data, "temperature"), Item(data, "humidity"),
                     Item(data, "fan_level"), Mode(data), Item(data, "led"),
                     DecodeLed(data), Item(data, "buzzer"),
                     Item(data, "child_lock"), Item(data, "favorite_level"),
                     Item(data, "filter_life_remaining"),
                     Item(data, "filter_hours_used"), Item(data, "use_time"),
                     Item(data, "purify_volume"), Item(data, "motor_speed"),
                     Item(data, "filter_rfid_product_id"),
                     Item(data, "filter_rfid_tag"),
                     [outcome |-> ft.outcome, value |-> ft.value] >>
        bad == {i \in DOMAIN fields : fields[i].outcome # "ok"}
        first == CHOOSE i \in bad : \A j \in bad : i <= j
    IN  IF bad = {}
        THEN [outcome |-> "ok",
              value |-> [i \in DOMAIN fields |-> fields[i].value],
              cache |-> ft.cache, evaluated |-> ft.evaluated]
        ELSE [outcome |-> fields[first].outcome, value |-> None,
              cache |-> IF first = Len(fields) THEN ft.cache ELSE c,
              evaluated |-> IF first = Len(fields) THEN ft.evaluated ELSE {}]

-----------------------------------------------------------------------------
(* Bookkeeping of the calls *)

\* the last call made: the operation, its argument, how it ended, what it
\* returned, the transport calls it issued and the product ids whose rules it
\* evaluated
Op(op, arg, outcome, value, calls, evals) ==
    [op |-> op, arg |-> arg, outcome |-> outcome, value |-> value,
     calls |-> calls, evals |-> evals]

\* the rule evaluation counts after the rules were evaluated for the ids in s
Counted(cnt, s) ==
    [k \in DOMAIN cnt \cup s |->
        (IF k \in DOMAIN cnt THEN cnt[k] ELSE 0) + (IF k \in s THEN 1 ELSE 0)]

NoOp == Op("init", None, "ok", None, <<>>, {})

NoThreads == [t \in 1..NThreads |-> [pc |-> "idle", pid |-> <<>>, ft |-> NoneType]]

EmptyCache == [k \in {} |-> NoneType]

NoCount == [k \in {} |-> 0]

-----------------------------------------------------------------------------
(* AirPurifierMiot: status() and the reads of the snapshot it returned *)

Status ==
    \E k \in Orders :
        /\ snapshot' = StatusInit(BuildRaw(GetProperties(device, k)))
        /\ lastOp' = Op("status", k, "ok", snapshot'.data, <<GetPropertiesCall>>, {})
        /\ UNCHANGED <<device, cache, evalCount, thr>>

\* a property that only reads self.data
ReadPlain(op, r) ==
    /\ snapshot.has
    /\ lastOp' = Op(op, None, r.outcome, r.value, <<>>, {})
    /\ UNCHANGED <<device, snapshot, cache, evalCount, thr>>

ReadMode == ReadPlain("mode", Mode(snapshot.data))

ReadLedBrightness == ReadPlain("led_brightness", DecodeLed(snapshot.data))

ReadFilterRfidProductId ==
    ReadPlain("filter_rfid_product_id", Item(snapshot.data, "filter_rfid_product_id"))

ReadFilterRfidTag ==
    ReadPlain("filter_rfid_tag", Item(snapshot.data, "filter_rfid_tag"))

ReadButtonPressed ==
    ReadPlain("button_pressed", Item(snapshot.data, "button_pressed"))

\* __json__
ReadJson == ReadPlain("json", Ok(snapshot.data))

\* a property that may go through the classifier
ReadClassified(op, r) ==
    /\ snapshot.has
    /\ lastOp' = Op(op, None, r.outcome, r.value, <<>>, r.evaluated)
    /\ cache' = r.cache
    /\ evalCount' = Counted(evalCount, r.evaluated)
    /\ UNCHANGED <<device, snapshot, thr>>

ReadFilterType == ReadClassified("filter_type", FilterTypeOf(snapshot.data, cache))

ReadRepr == ReadClassified("repr", Repr(snapshot.data, cache))

\* a direct call of the classmethod _get_filter_type
ClassifyCall(pid) ==
    LET g == GetFilterType(cache, pid)
        evals == IF g.evaluated THEN {pid} ELSE {}
    IN  /\ lastOp' = Op("classify", pid, "ok", g.ft, <<>>, evals)
        /\ cache' = g.cache
        /\ evalCount' = Counted(evalCount, evals)
        /\ UNCHANGED <<device, snapshot, thr>>

Classify == \E pid \in ProductIds : ClassifyCall(pid)

Init ==
    /\ device \in Devices(RawProductIds)
    /\ snapshot = NoSnapshot
    /\ cache = EmptyCache
    /\ evalCount = NoCount
    /\ lastOp = NoOp
    /\ thr = NoThreads

Next ==
    \/ Status
    \/ ReadMode
    \/ ReadLedBrightness
    \/ ReadFilterRfidProductId
    \/ ReadFilterRfidTag
    \/ ReadButtonPressed
    \/ ReadJson
    \/ ReadFilterType
    \/ ReadRepr

Spec == Init /\ [][Next]_vars

-----------------------------------------------------------------------------
(* The classifier called directly, over many product ids *)

Heads ==
    { <<"1", ":", "2">>, <<"1", "0", ":", "0">>, <<"7">>, <<":", "2">>,
      <<"a", ":", "2">>, <<"-", "1", ":", "2">>, <<"\n", "1", ":", "2">>, <<>> }

Codes ==
    { <<"4", "1">>, <<"3", "0">>, <<"0">>, <<"0", "0">>, <<"0", "0", "0">>,
      <<"3", "1">>, <<>> }

Subcodes == { <<"3", "0">>, <<"3", "1">>, <<"3">> }

Tails == { <<>>, <<"\n">>, <<"x">>, <<" ">> }

\* head:code:subcode followed by tail, and the empty string
AllProductIds ==
    {h \o Colon \o c \o Colon \o sc \o t :
        h \in Heads, c \in Codes, sc \in Subcodes, t \in Tails}
    \cup ProductIds \cup {<<>>}

\* the filter the device has installed is classified
ClassifyInstalled == ClassifyCall(device["filter_rfid_product_id"].v)

InitClassify ==
    /\ device \in {DeviceWith(PyInt(0), None, PyStr(SomeTag), PyStr(p)) :
                       p \in AllProductIds}
    /\ snapshot = NoSnapshot
    /\ cache = EmptyCache
    /\ evalCount = NoCount
    /\ lastOp = NoOp
    /\ thr = NoThreads

NextClassify ==
    \/ Classify
    \/ ClassifyInstalled

SpecClassify == InitClassify /\ [][NextClassify]_vars

-----------------------------------------------------------------------------
(* AirPurifierMiot: the setters *)

Levels == (-LevelBound)..LevelBound

\* what the transport reports for a set_property call
TransportResult(call) == [did |-> call.did, code |-> 0]

\* return self.set_property(name, value)
SetProperty(op, arg, name, value) ==
    /\ lastOp' = Op(op, arg, "ok", TransportResult(SetPropertyCall(name, value)),
                    <<SetPropertyCall(name, value)>>, {})
    /\ UNCHANGED <<device, snapshot, cache, evalCount, thr>>

\* raise AirPurifierMiotException(...)
RaiseInvalid(op, arg) ==
    /\ lastOp' = Op(op, arg, "AirPurifierMiotException", None, <<>>, {})
    /\ UNCHANGED <<device, snapshot, cache, evalCount, thr>>

On == SetProperty("on", None, "power", TRUE)

Off == SetProperty("off", None, "power", FALSE)

\* a range check that lets level 0 through
FanLevelInvalidOffByOne(level) == level < 0 \/ level > 3

\* level < 1 or level > 3
FanLevelInvalid(level) == level < 1 \/ level > 3

SetFanLevel(level) ==
    IF FanLevelInvalid(level)
    THEN RaiseInvalid("set_fan_level", level)
    ELSE SetProperty("set_fan_level", level, "fan_level", level)

\* mode.value
ModeValue(mode) == CHOOSE v \in 0..3 : OperationMode[v + 1] = mode

SetMode(mode) == SetProperty("set_mode", mode, "mode", ModeValue(mode))

\* level < 0 or level > 14
FavoriteLevelInvalid(level) == level < 0 \/ level > 14

SetFavoriteLevel(level) ==
    IF FavoriteLevelInvalid(level)
    THEN RaiseInvalid("set_favorite_level", level)
    ELSE SetProperty("set_favorite_level", level, "favorite_level", level)

\* brightness.value
BrightnessValue(b) == CHOOSE v \in 0..2 : LedBrightness[v + 1] = b

SetLedBrightness(b) ==
    SetProperty("set_led_brightness", b, "led_brightness", BrightnessValue(b))

SetLed(led) == SetProperty("set_led", led, "led", led)

SetBuzzer(buzzer) == SetProperty("set_buzzer", buzzer, "buzzer", buzzer)

SetChildLock(lock) == SetProperty("set_child_lock", lock, "child_lock", lock)

\* a device with no filter tag read yet
PlainDevice == DeviceWith(PyInt(0), PyInt(0), None, None)

InitPlain ==
    /\ device = PlainDevice
    /\ snapshot = NoSnapshot
    /\ cache = EmptyCache
    /\ evalCount = NoCount
    /\ lastOp = NoOp
    /\ thr = NoThreads

NextSetters ==
    \/ On
    \/ Off
    \/ \E level \in Levels : SetFanLevel(level)
    \/ \E mode \in {OperationMode[i] : i \in DOMAIN OperationMode} : SetMode(mode)
    \/ \E level \in Levels : SetFavoriteLevel(level)
    \/ \E b \in {LedBrightness[i] : i \in DOMAIN LedBrightness} : SetLedBrightness(b)
    \/ \E led \in BOOLEAN : SetLed(led)
    \/ \E buzzer \in BOOLEAN : SetBuzzer(buzzer)
    \/ \E lock \in BOOLEAN : SetChildLock(lock)

SpecSetters == InitPlain /\ [][NextSetters]_vars

-----------------------------------------------------------------------------
(* _get_filter_type called from several threads, one statement at a time *)

Threads == 1..NThreads

At(t, pc) == thr[t].pc = pc

Goto(t, pc, pid, ft) == thr' = [thr EXCEPT ![t] = [pc |-> pc, pid |-> pid, ft |-> ft]]

\* a thread enters _get_filter_type(pid)
TCall(t, pid) ==
    /\ At(t, "idle")
    /\ Goto(t, "get", pid, NoneType)
    /\ UNCHANGED <<device, snapshot, cache, evalCount, lastOp>>

\* ft = cls._filter_type_cache.get(product_id, None); if ft is None:
TGet(t) ==
    /\ At(t, "get")
    /\ LET ft == CacheGet(cache, thr[t].pid)
       IN  Goto(t, IF ft = NoneType THEN "eval" ELSE "return", thr[t].pid, ft)
    /\ UNCHANGED <<device, snapshot, cache, evalCount, lastOp>>

\* the for loop up to the first rule that matches
TEval(t) ==
    /\ At(t, "eval")
    /\ LET ft == RuleEval(thr[t].pid)
       IN  Goto(t, IF ft = NoneType THEN "return" ELSE "store", thr[t].pid, ft)
    /\ evalCount' = Counted(evalCount, {thr[t].pid})
    /\ UNCHANGED <<device, snapshot, cache, lastOp>>

\* ft = cls._filter_type_cache[product_id] = filter_type; break
TStore(t) ==
    /\ At(t, "store")
    /\ cache' = CacheStore(cache, thr[t].pid, thr[t].ft)
    /\ Goto(t, "return", thr[t].pid, thr[t].ft)
    /\ UNCHANGED <<device, snapshot, evalCount, lastOp>>

\* return ft
TReturn(t) ==
    /\ At(t, "return")
    /\ Goto(t, "idle", thr[t].pid, thr[t].ft)
    /\ lastOp' = Op("classify", thr[t].pid, "ok", thr[t].ft, <<>>, {})
    /\ UNCHANGED <<device, snapshot, cache, evalCount>>

NextConc ==
    \E t \in Threads :
        \/ \E pid \in ProductIds : TCall(t, pid)
        \/ TGet(t)
        \/ TEval(t)
        \/ TStore(t)
        \/ TReturn(t)

SpecConc == InitPlain /\ [][NextConc]_vars

-----------------------------------------------------------------------------
(* Properties *)

\* C1: set_fan_level(level) with level outside 1..3 and
\* set_favorite_level(level) with level outside 0..14 raise
\* AirPurifierMiotException and issue no transport call; inside the range
\* they succeed with exactly one set_property call carrying the level, to
\* {siid 2, piid 4} and {siid 10, piid 10} respectively.
C1_SettersFailFast ==
    /\ lastOp.op = "set_fan_level" =>
          IF lastOp.arg \in 1..3
          THEN /\ lastOp.outcome = "ok"
               /\ lastOp.calls = << [method |-> "set_property", did |-> "fan_level",
                                     siid |-> 2, piid |-> 4, value |-> lastOp.arg] >>
          ELSE /\ lastOp.outcome = "AirPurifierMiotException"
               /\ lastOp.calls = <<>>
    /\ lastOp.op = "set_favorite_level" =>
          IF lastOp.arg \in 0..14
          THEN /\ lastOp.outcome = "ok"
               /\ lastOp.calls = << [method |-> "set_property", did |-> "favorite_level",
                                     siid |-> 10, piid |-> 10, value |-> lastOp.arg] >>
          ELSE /\ lastOp.outcome = "AirPurifierMiotException"
               /\ lastOp.calls = <<>>

\* set_fan_level(0) was refused without a transport call
C1_Witness ==
    /\ lastOp.op = "set_fan_level"
    /\ lastOp.arg = 0
    /\ lastOp.outcome = "AirPurifierMiotException"
    /\ lastOp.calls = <<>>

\* C2: reading mode yields Auto, Silent, Favorite, Fan for the raw values
\* 0, 1, 2, 3 and raises ValueError for every other raw value; it never
\* yields a mode or None for them.
C2_ModeStrict ==
    lastOp.op = "mode" =>
        LET raw == snapshot.data["mode"]
        IN  IF raw.t = "int" /\ raw.v \in 0..3
            THEN /\ lastOp.outcome = "ok"
                 /\ lastOp.value = (CASE raw.v = 0 -> "Auto"
                                      [] raw.v = 1 -> "Silent"
                                      [] raw.v = 2 -> "Favorite"
                                      [] raw.v = 3 -> "Fan")
            ELSE lastOp.outcome = "ValueError"

\* mode was read from a snapshot whose raw mode is 4, and raised
C2_Witness ==
    /\ lastOp.op = "mode"
    /\ snapshot.data["mode"] = PyInt(4)
    /\ lastOp.outcome = "ValueError"

\* C3: reading led_brightness never raises: raw None yields None, raw 0, 1,
\* 2 yield Bright, Dim, Off and every other raw value yields None.
C3_LedLenient ==
    lastOp.op = "led_brightness" =>
        LET raw == snapshot.data["led_brightness"]
        IN  /\ lastOp.outcome = "ok"
            /\ lastOp.value = (CASE raw = PyInt(0) -> "Bright"
                                 [] raw = PyInt(1) -> "Dim"
                                 [] raw = PyInt(2) -> "Off"
                                 [] OTHER -> NoneType)

\* led_brightness was read from a snapshot whose raw value is 3, and gave None
C3_Witness ==
    /\ lastOp.op = "led_brightness"
    /\ snapshot.data["led_brightness"] = PyInt(3)
    /\ lastOp.outcome = "ok"
    /\ lastOp.value = NoneType

\* C4: filter_type is None when the tag is None; else Unknown when the tag
\* is "0:0:0:0:0:0:0", whatever the product id; else Regular when the
\* product id is None; else the classification of the product id.  In the
\* first three cases the rules are not evaluated and the cache is not written.
C4_FilterTypeRules ==
    /\ [](lastOp.op = "filter_type" =>
            LET tag == snapshot.data["filter_rfid_tag"]
                pid == snapshot.data["filter_rfid_product_id"]
            IN  /\ lastOp.outcome = "ok"
                /\ lastOp.value =
                      (IF tag = None THEN NoneType
                       ELSE IF tag = PyStr(ZeroTag) THEN "Unknown"
                       ELSE IF pid = None THEN "Regular"
                       ELSE RuleEval(pid.v))
                /\ (tag = None \/ tag = PyStr(ZeroTag) \/ pid = None)
                      => lastOp.evals = {})
    /\ [][(/\ lastOp'.op = "filter_type"
           /\ snapshot.has
           /\ \/ snapshot.data["filter_rfid_tag"] \in {None, PyStr(ZeroTag)}
              \/ snapshot.data["filter_rfid_product_id"] = None)
          => cache' = cache /\ evalCount' = evalCount]_vars

\* filter_type was read with the all-zero tag and a product id present
C4_Witness ==
    /\ lastOp.op = "filter_type"
    /\ snapshot.data["filter_rfid_tag"] = PyStr(ZeroTag)
    /\ snapshot.data["filter_rfid_product_id"] = PyStr(IdAntiBacterial)
    /\ lastOp.value = "Unknown"
    /\ cache = EmptyCache

\* s is "<int>:<int>:code:sub" with code among codes
HasShape(s, codes, sub) ==
    LET cols == {i \in DOMAIN s : s[i] = ":"}
        c1 == CHOOSE i \in cols : \A j \in cols : i <= j
        c3 == CHOOSE i \in cols : \A j \in cols : j <= i
        c2 == CHOOSE i \in cols : i # c1 /\ i # c3
        int(f) == Len(f) > 0 /\ \A i \in DOMAIN f : f[i] \in Digits
    IN  /\ Cardinality(cols) = 3
        /\ int(SubSeq(s, 1, c1 - 1))
        /\ int(SubSeq(s, c1 + 1, c2 - 1))
        /\ SubSeq(s, c2 + 1, c3 - 1) \in codes
        /\ SubSeq(s, c3 + 1, Len(s)) = sub

\* C5: classify returns AntiBacterial for every "<int>:<int>:41:30",
\* AntiFormaldehyde for every "<int>:<int>:C:31" with C among 30, 0, 00,
\* and Regular for every other string; never Unknown or None.
C5_ClassifyByShape ==
    lastOp.op = "classify" =>
        lastOp.value =
            (IF HasShape(lastOp.arg, {<<"4", "1">>}, <<"3", "0">>)
             THEN "AntiBacterial"
             ELSE IF HasShape(lastOp.arg, {<<"3", "0">>, <<"0">>, <<"0", "0">>},
                              <<"3", "1">>)
             THEN "AntiFormaldehyde"
             ELSE "Regular")

\* C6: every call of the classifier returns what the rules give for its
\* product id, the rules are evaluated at most once per product id, and a
\* cache entry once written is never removed or changed.
C6_MemoTransparent ==
    /\ [](lastOp.op = "classify" => lastOp.value = RuleEval(lastOp.arg))
    /\ [](\A k \in DOMAIN evalCount : evalCount[k] <= 1)
    /\ [][\A k \in DOMAIN cache : k \in DOMAIN cache' /\ cache'[k] = cache[k]]_vars

\* a call answered from the cache, for an id other ids were classified after
C6_Witness ==
    /\ lastOp.op = "classify"
    /\ lastOp.evals = {}
    /\ lastOp.arg = IdAntiBacterial
    /\ lastOp.value = "AntiBacterial"
    /\ evalCount[IdAntiBacterial] = 1
    /\ Cardinality(DOMAIN cache) >= 3

\* C7: status() issues one get_properties call and, in whatever order the
\* transport answers, returns a snapshot whose data maps every registered
\* name to the value the transport reported for that name.
C7_StatusByName ==
    lastOp.op = "status" =>
        /\ lastOp.outcome = "ok"
        /\ Len(lastOp.calls) = 1
        /\ lastOp.calls[1].method = "get_properties"
        /\ snapshot.has
        /\ DOMAIN snapshot.data = Names
        /\ \A n \in Names : snapshot.data[n] = device[n]
        /\ lastOp.value = snapshot.data

\* status() returned after the transport answered in reverse order
C7_Witness ==
    /\ lastOp.op = "status"
    /\ lastOp.arg = NRotations
    /\ snapshot.data["mode"] = device["mode"]

\* C8: on a snapshot returned by status(), reading filter_rfid_product_id,
\* filter_rfid_tag and button_pressed returns the raw value and never fails
\* for a name missing from the data.
C8_PassThroughBacked ==
    /\ lastOp.op \in {"filter_rfid_product_id", "filter_rfid_tag"} =>
          lastOp.outcome = "ok" /\ lastOp.value = snapshot.data[lastOp.op]
    /\ lastOp.op = "button_pressed" => lastOp.outcome = "ok"

\* C9 as stated: no snapshot carrying a raw mode outside 0..3 is handed to
\* the caller; status() fails instead.
C9_OriginalEager ==
    snapshot.has =>
        snapshot.data["mode"].t = "int" /\ snapshot.data["mode"].v \in 0..3

\* C9 amended: status() succeeds whatever the raw mode is and returns a
\* snapshot that carries it; on a snapshot whose raw mode is outside 0..3
\* every read of mode, and __repr__, raise ValueError, and __json__ hands
\* out the raw value.
C9_DeferredDecode ==
    LET raw == snapshot.data["mode"]
        bad == ~(raw.t = "int" /\ raw.v \in 0..3)
    IN  /\ lastOp.op = "status" =>
              /\ lastOp.outcome = "ok"
              /\ snapshot.has
              /\ raw = device["mode"]
        /\ (lastOp.op \in {"mode", "repr"} /\ bad) => lastOp.outcome = "ValueError"
        /\ lastOp.op = "json" => lastOp.outcome = "ok" /\ lastOp.value["mode"] = raw

\* status() returned a snapshot whose raw mode is 4
C9_Witness ==
    /\ lastOp.op = "status"
    /\ lastOp.outcome = "ok"
    /\ snapshot.has
    /\ snapshot.data["mode"] = PyInt(4)

\* C10: with the classifier's statements interleaved between threads, every
\* call returns what the rules give for its own product id and every cache
\* entry holds what the rules give for its key.
C10_ConcurrentCache ==
    /\ \A k \in DOMAIN cache : cache[k] = RuleEval(k)
    /\ \A t \in Threads : At(t, "return") => thr[t].ft = RuleEval(thr[t].pid)
    /\ lastOp.op = "classify" => lastOp.value = RuleEval(lastOp.arg)

\* two threads are about to write the same key while another key is cached
C10_Witness ==
    \E t, u \in Threads :
        /\ t # u
        /\ At(t, "store") /\ At(u, "store")
        /\ thr[t].pid = thr[u].pid
        /\ \E k \in DOMAIN cache : k # thr[t].pid

====
